---- MODULE Spec2Model ----
(***************************************************************************)
(* The control loop of bot/trading/trading_engine.py (TradingEngine.run    *)
(* and the steps it awaits), with the exchange client, the risk manager    *)
(* and the predictors as environments whose calls return or raise.         *)
(*                                                                         *)
(* One action is one step of run(): a whole awaited coroutine, or one      *)
(* pass of a per-symbol loop body.  The signal handler is the only other   *)
(* actor; it may run between any two steps.                                *)
(*                                                                         *)
(* get_historical_data, get_portfolio, update_order, calculate_position_size*)
(* and calculate_trailing_stop are called by the engine and defined by no   *)
(* class under src/: each is a call that returns a value of its contract or *)
(* raises (the AttributeError of a missing method is one such raise).       *)
(*                                                                         *)
(* Scaling: confidence_threshold and the combined signal are in tenths     *)
(* (0.7 -> 7).  max_open_positions is 5 in trading_config.py with three    *)
(* symbols; the model keeps the three symbols and takes the limit below    *)
(* the number of symbols, so that the limit is what stops the entries.     *)
(***************************************************************************)
EXTENDS Integers, Sequences, FiniteSets, TLC

\* CONFIG['exchange']['symbols'], in the order the loops visit them
SymbolList == <<"BTC/USDT", "ETH/USDT", "BNB/USDT">>

Symbols == {SymbolList[i] : i \in 1..Len(SymbolList)}

\* the value taken for CONFIG['trading']['max_open_positions'] (see above)
max_open_positions == 2

\* CONFIG['strategy']['confidence_threshold'], in tenths
confidence_threshold == 7

\* values of the combined signal the predictors may produce, in tenths
Signals == {6, 7, 8}

\* values the position sizing may return
PositionSizes == {-1, 0, 1, 2}

\* trailing-stop levels the risk manager may compute (0 is "no stop recorded")
StopLevels == {1, 2}

VARIABLES
    pc,            \* where run() stands
    running,       \* self.running
    signal_at,     \* where run() stood at the first SIGINT/SIGTERM since it started
    client,        \* exchange.client: "none", "open", "closed"
    executor_up,   \* the ThreadPoolExecutor has not been shut down
    market_data,   \* symbols whose bars are in self.market_data
    hist_failed,   \* a get_historical_data call of the bootstrap raised
    exch_failed,   \* ExchangeIntegration.initialize raised
    last_update,   \* last_data_update, last_model_update, last_risk_update: 0 or set
    positions,     \* self.positions, in insertion order
    emergency,     \* what check_emergency_shutdown(self.positions) returns now
    idx,           \* index of the per-symbol loop in progress
    steps,         \* the steps started in the iteration in progress, in order
    due_refresh,   \* the data refresh was due in the iteration in progress
    calls,         \* exchange calls issued by the last step
    trade,         \* what the last pass of the execution loop decided
    pass,          \* what the monitoring pass in progress (or just ended) did
    emergency_seen,    \* an emergency check of an earlier or the current pass triggered
    market_conditions, \* risk_manager.market_conditions, in insertion order
    fn,            \* the library function under study ("none" in the control loop)
    arg,           \* its arguments
    ret,           \* what it returned
    paper,         \* the PaperTradingStrategy instance of routes/paper_trading.py
    optimizer      \* the StrategyOptimizer: its registries, stored regime and clock

vars == <<pc, running, signal_at, client, executor_up, market_data, hist_failed,
          exch_failed, last_update, positions, emergency, idx, steps,
          due_refresh, calls, trade, pass, emergency_seen, market_conditions,
          fn, arg, ret, paper, optimizer>>

\* the state of the control loop
engine_vars == <<pc, running, signal_at, client, executor_up, market_data,
                 hist_failed, exch_failed, last_update, positions, emergency,
                 idx, steps, due_refresh, calls, trade, pass, emergency_seen>>

\* what no step of the control loop writes: nothing in the engine calls
\* update_market_condition, and the library functions and the paper-trading
\* strategy are studied on their own, as are the registries of the optimizer
outside_engine == <<market_conditions, fn, arg, ret, paper, optimizer>>

Timers == {"data", "model", "risk"}

NoTrade == [symbol |-> "", signal |-> 0, count |-> 0, size |-> 0, buy |-> "none"]

NoPass == [emergency |-> FALSE, trailed |-> FALSE, checked |-> FALSE]

\* pcs of the body of `while self.running`
IterationPcs == {"refresh", "retrain", "risk", "trade", "trade_symbol", "monitor",
                 "monitor_position", "metrics", "sleep", "error_sleep"}

LoopPcs == IterationPcs \cup {"loop_head"}

ShutdownPcs == {"shutdown_close", "shutdown_exchange", "shutdown_executor"}

\* the part of run() a pc belongs to; before run() sets self.running a
\* signal is overwritten and leaves no trace
Phase(p) ==
    CASE p = "created" -> "none"
      [] p \in {"init_exchange", "load_history", "analyze_markets"} -> "init"
      [] p \in LoopPcs -> "loop"
      [] OTHER -> "cleanup"

\* the calls of _close_all_positions and ExchangeIntegration.close
CleanupCalls == {"execute_order:SELL:MARKET", "close_connection"}

----------------------------------------------------------------------------
\* self.positions as an insertion-ordered dict

PosSymbols(pos) == {pos[i].symbol : i \in 1..Len(pos)}

PosIndex(pos, s) == CHOOSE i \in 1..Len(pos) : pos[i].symbol = s

\* self.positions[symbol] = order
PutPosition(pos, rec) ==
    IF rec.symbol \in PosSymbols(pos)
    THEN [pos EXCEPT ![PosIndex(pos, rec.symbol)] = rec]
    ELSE Append(pos, rec)

\* check_emergency_shutdown on an empty snapshot: max() of an empty sequence
\* raises and the handler returns True; otherwise the outcome is a function
\* of the position records, redrawn whenever a record is added or removed
EmergencyOutcomes(pos) == IF pos = <<>> THEN {TRUE} ELSE BOOLEAN

\* _close_all_positions: sells in insertion order, deleting each position
\* after its order returned; the first order that raises ends the loop.
\* k is the number of orders that returned.
CloseAllPositions(pos, k) == SubSeq(pos, k + 1, Len(pos))

CloseCalls(pos, k) ==
    IF pos = <<>> THEN {} ELSE {"execute_order:SELL:MARKET"}

----------------------------------------------------------------------------
EngineInit ==
    /\ pc = "created"
    /\ running = FALSE
    /\ signal_at = "none"
    /\ client = "none"
    /\ executor_up = TRUE
    /\ market_data = {}
    /\ hist_failed = FALSE
    /\ exch_failed = FALSE
    /\ last_update = [t \in Timers |-> 0]
    /\ positions = <<>>
    /\ emergency = TRUE
    /\ idx = 1
    /\ steps = <<>>
    /\ due_refresh = FALSE
    /\ calls = {}
    /\ trade = NoTrade
    /\ pass = NoPass
    /\ emergency_seen = FALSE

\* the whole program after construction: nothing has been called yet, the risk
\* manager has no market condition and the paper strategy is not created
Init ==
    /\ EngineInit
    /\ market_conditions = <<>>
    /\ fn = "none"
    /\ arg = <<>>
    /\ ret = <<>>
    /\ paper = <<>>
    /\ optimizer = <<>>

\* _handle_shutdown
HandleShutdown ==
    /\ pc \notin {"stopped", "init_failed", "crashed"}
    /\ running' = FALSE
    /\ signal_at' = IF signal_at = "none" THEN Phase(pc) ELSE signal_at
    /\ calls' = {}
    /\ trade' = NoTrade
    /\ UNCHANGED <<pc, client, executor_up, market_data, hist_failed, exch_failed,
                   last_update, positions, emergency, idx, steps, due_refresh, pass>>
    /\ UNCHANGED <<emergency_seen, outside_engine>>

\* run(): self.running = True
Start ==
    /\ pc = "created"
    /\ pc' = "init_exchange"
    /\ running' = TRUE
    /\ calls' = {}
    /\ UNCHANGED <<signal_at, client, executor_up, market_data, hist_failed,
                   exch_failed, last_update, positions, emergency, idx, steps,
                   due_refresh, trade, pass>>
    /\ UNCHANGED <<emergency_seen, outside_engine>>

----------------------------------------------------------------------------
\* initialize()

\* mutant: the exception is logged and the initialization goes on
AfterExchangeInitialize_GoesOn(raised) == "load_history"

\* initialize(): an exception of exchange.initialize() reaches the handler,
\* initialize() returns False and run() returns
AfterExchangeInitialize(raised) ==
    IF raised THEN "init_failed" ELSE "load_history"

\* await self.exchange.initialize()
InitializeExchange ==
    /\ pc = "init_exchange"
    /\ \E raised \in BOOLEAN :
        /\ client' = IF raised THEN "none" ELSE "open"
        /\ exch_failed' = raised
        /\ pc' = AfterExchangeInitialize(raised)
    /\ calls' = {"AsyncClient.create"}
    /\ UNCHANGED <<running, signal_at, executor_up, market_data, hist_failed,
                   last_update, positions, emergency, idx, steps, due_refresh,
                   trade, pass>>
    /\ UNCHANGED <<emergency_seen, outside_engine>>

\* _load_historical_data: each fetch has its own handler, which logs and
\* goes on; the coroutine returns normally whatever failed
AfterLoadHistoricalData(failed) == "analyze_markets"

\* await self._load_historical_data(); loaded: the symbols whose fetches returned
LoadHistoricalData ==
    /\ pc = "load_history"
    /\ \E loaded \in SUBSET Symbols :
        /\ market_data' = loaded
        /\ hist_failed' = (loaded # Symbols)
        /\ pc' = AfterLoadHistoricalData(loaded # Symbols)
    /\ calls' = {"get_historical_data"}
    /\ UNCHANGED <<running, signal_at, client, executor_up, exch_failed,
                   last_update, positions, emergency, idx, steps, due_refresh,
                   trade, pass>>
    /\ UNCHANGED <<emergency_seen, outside_engine>>

\* await self._analyze_markets(); return True; then last_* = 0 in run()
AnalyzeMarketsInit ==
    /\ pc = "analyze_markets"
    /\ pc' = "loop_head"
    /\ calls' = {}
    /\ UNCHANGED <<running, signal_at, client, executor_up, market_data,
                   hist_failed, exch_failed, last_update, positions, emergency,
                   idx, steps, due_refresh, trade, pass>>
    /\ UNCHANGED <<emergency_seen, outside_engine>>

----------------------------------------------------------------------------
\* the loop of run()

\* mutant: the loop does not test self.running
LoopTest_Always(r) == "refresh"

\* while self.running: ... ; after the loop, the cleanup
LoopTest(r) == IF r THEN "refresh" ELSE "shutdown_close"

\* mutant: the positions are monitored before the execution step
StepAfter_MonitorFirst(step) ==
    CASE step = "refresh" -> "retrain"
      [] step = "retrain" -> "risk"
      [] step = "risk" -> "monitor"
      [] step = "monitor" -> "trade"
      [] step = "trade" -> "metrics"
      [] step = "metrics" -> "sleep"
      [] step = "sleep" -> "loop_head"

\* the order of the statements of the try block
StepAfter(step) ==
    CASE step = "refresh" -> "retrain"
      [] step = "retrain" -> "risk"
      [] step = "risk" -> "trade"
      [] step = "trade" -> "monitor"
      [] step = "monitor" -> "metrics"
      [] step = "metrics" -> "sleep"
      [] step = "sleep" -> "loop_head"

\* mutant: the exception leaves run()
IterationExcept_Propagates == "crashed"

\* except Exception: log, sleep 5 s, and test the loop condition again
IterationExcept == "error_sleep"

\* current_time - last_x > interval; last_x = 0 makes it true
DueChoices(t) == IF last_update[t] = 0 THEN {TRUE} ELSE BOOLEAN

LoopHead ==
    /\ pc = "loop_head"
    /\ pc' = LoopTest(running)
    /\ steps' = <<>>
    /\ due_refresh' = FALSE
    /\ calls' = {}
    /\ trade' = NoTrade
    /\ pass' = NoPass
    /\ UNCHANGED <<running, signal_at, client, executor_up, market_data,
                   hist_failed, exch_failed, last_update, positions, emergency, idx>>
    /\ UNCHANGED <<emergency_seen, outside_engine>>

\* _update_market_data: symbols are fetched in order; the first fetch that
\* raises ends the coroutine (its handler logs).  k fetches returned.
UpdateMarketData(md, k) == md \cup {SymbolList[i] : i \in 1..k}

RefreshMarketData ==
    /\ pc = "refresh"
    /\ \E due \in DueChoices("data") :
        /\ due_refresh' = due
        /\ IF due
           THEN /\ \E k \in 0..Len(SymbolList) :
                     market_data' = UpdateMarketData(market_data, k)
                /\ last_update' = [last_update EXCEPT !["data"] = 1]
                /\ steps' = Append(steps, "refresh")
                /\ calls' = {"get_historical_data"}
           ELSE /\ calls' = {}
                /\ UNCHANGED <<market_data, last_update, steps>>
    /\ pc' = StepAfter("refresh")
    /\ UNCHANGED <<running, signal_at, client, executor_up, hist_failed,
                   exch_failed, positions, emergency, idx, trade, pass>>
    /\ UNCHANGED <<emergency_seen, outside_engine>>

\* the retraining block: self.market_data[symbol][timeframe] raises KeyError
\* for a symbol whose bars were never loaded; train_model itself never raises
RetrainModels ==
    /\ pc = "retrain"
    /\ \E due \in DueChoices("model") :
        IF due
        THEN /\ steps' = Append(steps, "retrain")
             /\ IF market_data = Symbols
                THEN /\ last_update' = [last_update EXCEPT !["model"] = 1]
                     /\ pc' = StepAfter("retrain")
                ELSE /\ pc' = IterationExcept
                     /\ UNCHANGED last_update
        ELSE /\ pc' = StepAfter("retrain")
             /\ UNCHANGED <<last_update, steps>>
    /\ calls' = {}
    /\ UNCHANGED <<running, signal_at, client, executor_up, market_data,
                   hist_failed, exch_failed, positions, emergency, idx,
                   due_refresh, trade, pass>>
    /\ UNCHANGED <<emergency_seen, outside_engine>>

\* the risk block: _analyze_markets handles its own exceptions
UpdateRisk ==
    /\ pc = "risk"
    /\ \E due \in DueChoices("risk") :
        IF due
        THEN /\ steps' = Append(steps, "risk")
             /\ last_update' = [last_update EXCEPT !["risk"] = 1]
        ELSE UNCHANGED <<last_update, steps>>
    /\ pc' = StepAfter("risk")
    /\ calls' = {}
    /\ UNCHANGED <<running, signal_at, client, executor_up, market_data,
                   hist_failed, exch_failed, positions, emergency, idx,
                   due_refresh, trade, pass>>
    /\ UNCHANGED <<emergency_seen, outside_engine>>

----------------------------------------------------------------------------
\* _check_and_execute_trades

\* mutant: the limit is tested with > instead of >=
MaxPositionsReached_OffByOne(pos) == Len(pos) > max_open_positions

\* if len(self.positions) >= max_open_positions: break
MaxPositionsReached(pos) == Len(pos) >= max_open_positions

\* mutant: a signal equal to the threshold passes
SignalStrongEnough_AtThreshold(sig) == sig >= confidence_threshold

\* if combined_signal > confidence_threshold
SignalStrongEnough(sig) == sig > confidence_threshold

\* if position_size > 0
SizeAccepted(size) == size > 0

\* the next pass of `for symbol in symbols`, or the end of the coroutine
NextSymbol(i) == IF i < Len(SymbolList) THEN "trade_symbol" ELSE StepAfter("trade")

\* portfolio = await self.exchange.get_portfolio(); an exception ends the step.
\* (The step is reached only after a retraining block that found bars for
\* every symbol, and bars are never removed: self.market_data[symbol]['1m']
\* is there in every pass of the loop below.)
GetPortfolio ==
    /\ pc = "trade"
    /\ \E raised \in BOOLEAN :
        pc' = IF raised THEN StepAfter("trade") ELSE "trade_symbol"
    /\ idx' = 1
    /\ steps' = Append(steps, "trade")
    /\ calls' = {"get_portfolio"}
    /\ trade' = NoTrade
    /\ UNCHANGED <<running, signal_at, client, executor_up, market_data,
                   hist_failed, exch_failed, last_update, positions, emergency,
                   due_refresh, pass>>
    /\ UNCHANGED <<emergency_seen, outside_engine>>

\* the limit is reached: break
TradeBreak ==
    /\ pc = "trade_symbol"
    /\ MaxPositionsReached(positions)
    /\ pc' = StepAfter("trade")
    /\ idx' = 1
    /\ calls' = {}
    /\ trade' = [NoTrade EXCEPT !.symbol = SymbolList[idx], !.count = Len(positions)]
    /\ UNCHANGED <<running, signal_at, client, executor_up, market_data,
                   hist_failed, exch_failed, last_update, positions, emergency,
                   steps, due_refresh, pass>>
    /\ UNCHANGED <<emergency_seen, outside_engine>>

\* the signal is not above the threshold: the next symbol
TradeWeakSignal ==
    /\ pc = "trade_symbol"
    /\ ~MaxPositionsReached(positions)
    /\ \E sig \in Signals :
        /\ ~SignalStrongEnough(sig)
        /\ trade' = [NoTrade EXCEPT !.symbol = SymbolList[idx], !.signal = sig,
                                    !.count = Len(positions)]
    /\ pc' = NextSymbol(idx)
    /\ idx' = IF idx < Len(SymbolList) THEN idx + 1 ELSE 1
    /\ calls' = {}
    /\ UNCHANGED <<running, signal_at, client, executor_up, market_data,
                   hist_failed, exch_failed, last_update, positions, emergency,
                   steps, due_refresh, pass>>
    /\ UNCHANGED <<emergency_seen, outside_engine>>

\* reading the last close or calculate_position_size raises (the step ends),
\* or the size returned is not positive (the next symbol)
TradeNoSize ==
    /\ pc = "trade_symbol"
    /\ ~MaxPositionsReached(positions)
    /\ \E sig \in Signals, raised \in BOOLEAN, size \in PositionSizes :
        /\ SignalStrongEnough(sig)
        /\ raised \/ ~SizeAccepted(size)
        /\ trade' = [NoTrade EXCEPT !.symbol = SymbolList[idx], !.signal = sig,
                                    !.count = Len(positions),
                                    !.size = IF raised THEN 0 ELSE size]
        /\ pc' = IF raised THEN StepAfter("trade") ELSE NextSymbol(idx)
        /\ idx' = IF raised \/ idx = Len(SymbolList) THEN 1 ELSE idx + 1
    /\ calls' = {}
    /\ UNCHANGED <<running, signal_at, client, executor_up, market_data,
                   hist_failed, exch_failed, last_update, positions, emergency,
                   steps, due_refresh, pass>>
    /\ UNCHANGED <<emergency_seen, outside_engine>>

\* the BUY order raises: the step ends
TradeBuyRaises ==
    /\ pc = "trade_symbol"
    /\ ~MaxPositionsReached(positions)
    /\ \E sig \in Signals, size \in PositionSizes :
        /\ SignalStrongEnough(sig)
        /\ SizeAccepted(size)
        /\ trade' = [symbol |-> SymbolList[idx], signal |-> sig,
                     count |-> Len(positions), size |-> size, buy |-> "raised"]
    /\ pc' = StepAfter("trade")
    /\ idx' = 1
    /\ calls' = {"execute_order:BUY"}
    /\ UNCHANGED <<running, signal_at, client, executor_up, market_data,
                   hist_failed, exch_failed, last_update, positions, emergency,
                   steps, due_refresh, pass>>
    /\ UNCHANGED <<emergency_seen, outside_engine>>

\* the BUY order is filled: the position is recorded, then the stop-loss
\* order is placed; if that raises (or order['price'] is missing) the step ends
TradeBuyFilled ==
    /\ pc = "trade_symbol"
    /\ ~MaxPositionsReached(positions)
    /\ \E sig \in Signals, size \in PositionSizes, stop_raised \in BOOLEAN :
        /\ SignalStrongEnough(sig)
        /\ SizeAccepted(size)
        /\ trade' = [symbol |-> SymbolList[idx], signal |-> sig,
                     count |-> Len(positions), size |-> size, buy |-> "filled"]
        /\ positions' = PutPosition(positions,
                            [symbol |-> SymbolList[idx], amount |-> size, stop_loss |-> 0,
                             stop_order |-> IF stop_raised THEN "none" ELSE "submitted",
                             stop_loss_order_id |-> "none"])
        /\ pc' = IF stop_raised THEN StepAfter("trade") ELSE NextSymbol(idx)
        /\ idx' = IF stop_raised \/ idx = Len(SymbolList) THEN 1 ELSE idx + 1
    /\ emergency' \in EmergencyOutcomes(positions')
    /\ calls' = {"execute_order:BUY", "execute_order:SELL:STOP_LOSS"}
    /\ UNCHANGED <<running, signal_at, client, executor_up, market_data,
                   hist_failed, exch_failed, last_update, steps, due_refresh, pass>>
    /\ UNCHANGED <<emergency_seen, outside_engine>>

----------------------------------------------------------------------------
\* _monitor_positions

StopAfterPass_Trails(position, new_stop) == new_stop

\* the stop recorded for a position after a pass of the loop over it.  The
\* result of check_emergency_shutdown is awaited (line 225) although the
\* method is a plain function (advanced_risk_manager.py:169): the value
\* awaited is the tuple it returned, and awaiting a tuple raises TypeError.
\* The pass ends in the handler of line 250, the statements after the check
\* (close all positions, or compare new_stop with the recorded stop and
\* record it) are not reached, and the recorded stop is kept.
StopAfterPass(position, new_stop) == position.stop_loss

\* the snapshot of the positions is taken; no position, no pass of the loop
MonitorStart ==
    /\ pc = "monitor"
    /\ pc' = IF positions = <<>> THEN StepAfter("monitor") ELSE "monitor_position"
    /\ idx' = 1
    /\ steps' = Append(steps, "monitor")
    /\ pass' = NoPass
    /\ calls' = {}
    /\ trade' = NoTrade
    /\ UNCHANGED <<running, signal_at, client, executor_up, market_data,
                   hist_failed, exch_failed, last_update, positions, emergency,
                   due_refresh>>
    /\ UNCHANGED <<emergency_seen, outside_engine>>

\* a pass over a position: the prices are read, check_emergency_shutdown
\* returns its verdict, the await of it raises and the step ends
MonitorCheck ==
    /\ pc = "monitor_position"
    /\ \E new_stop \in StopLevels :
        positions' = [positions EXCEPT
                         ![idx].stop_loss = StopAfterPass(positions[idx], new_stop)]
    /\ pass' = [pass EXCEPT !.emergency = emergency, !.checked = TRUE]
    /\ emergency_seen' = (emergency_seen \/ emergency)
    /\ pc' = StepAfter("monitor")
    /\ idx' = 1
    /\ calls' = {}
    /\ UNCHANGED <<running, signal_at, client, executor_up, market_data,
                   hist_failed, exch_failed, last_update, emergency, steps,
                   due_refresh, trade>>
    /\ UNCHANGED outside_engine

\* reading the prices of the position (lines 221-222) raises: the step ends
MonitorRaises ==
    /\ pc = "monitor_position"
    /\ pc' = StepAfter("monitor")
    /\ idx' = 1
    /\ calls' = {}
    /\ UNCHANGED <<running, signal_at, client, executor_up, market_data,
                   hist_failed, exch_failed, last_update, positions, emergency,
                   steps, due_refresh, trade, pass>>
    /\ UNCHANGED <<emergency_seen, outside_engine>>

----------------------------------------------------------------------------
\* the end of the iteration

\* _update_performance_metrics: get_portfolio, with its own handler
UpdatePerformanceMetrics ==
    /\ pc = "metrics"
    /\ pc' = StepAfter("metrics")
    /\ steps' = Append(steps, "metrics")
    /\ calls' = {"get_portfolio"}
    /\ UNCHANGED <<running, signal_at, client, executor_up, market_data,
                   hist_failed, exch_failed, last_update, positions, emergency,
                   idx, due_refresh, trade, pass>>
    /\ UNCHANGED <<emergency_seen, outside_engine>>

\* await asyncio.sleep(update_interval)
Sleep ==
    /\ pc = "sleep"
    /\ pc' = StepAfter("sleep")
    /\ calls' = {}
    /\ UNCHANGED <<running, signal_at, client, executor_up, market_data,
                   hist_failed, exch_failed, last_update, positions, emergency,
                   idx, steps, due_refresh, trade, pass>>
    /\ UNCHANGED <<emergency_seen, outside_engine>>

\* await asyncio.sleep(5) in the handler of the loop body
ErrorSleep ==
    /\ pc = "error_sleep"
    /\ pc' = "loop_head"
    /\ calls' = {}
    /\ UNCHANGED <<running, signal_at, client, executor_up, market_data,
                   hist_failed, exch_failed, last_update, positions, emergency,
                   idx, steps, due_refresh, trade, pass>>
    /\ UNCHANGED <<emergency_seen, outside_engine>>

----------------------------------------------------------------------------
\* the cleanup after the loop

\* await self._close_all_positions()
ShutdownClosePositions ==
    /\ pc = "shutdown_close"
    /\ \E k \in 0..Len(positions) :
        /\ positions' = CloseAllPositions(positions, k)
        /\ calls' = CloseCalls(positions, k)
    /\ emergency' \in EmergencyOutcomes(positions')
    /\ pc' = "shutdown_exchange"
    /\ UNCHANGED <<running, signal_at, client, executor_up, market_data,
                   hist_failed, exch_failed, last_update, idx, steps,
                   due_refresh, trade, pass>>
    /\ UNCHANGED <<emergency_seen, outside_engine>>

\* await self.exchange.close(): an exception of close_connection() is not
\* handled in close() nor in run(), and ends run()
AfterExchangeClose(raised) == IF raised THEN "crashed" ELSE "shutdown_executor"

ShutdownCloseExchange ==
    /\ pc = "shutdown_exchange"
    /\ IF client = "open"
       THEN /\ \E raised \in BOOLEAN :
                 /\ pc' = AfterExchangeClose(raised)
                 /\ client' = IF raised THEN client ELSE "closed"
            /\ calls' = {"close_connection"}
       ELSE /\ pc' = AfterExchangeClose(FALSE)
            /\ calls' = {}
            /\ UNCHANGED client
    /\ UNCHANGED <<running, signal_at, executor_up, market_data, hist_failed,
                   exch_failed, last_update, positions, emergency, idx, steps,
                   due_refresh, trade, pass>>
    /\ UNCHANGED <<emergency_seen, outside_engine>>

\* self.executor.shutdown(); "Trading engine stopped"
ShutdownExecutor ==
    /\ pc = "shutdown_executor"
    /\ executor_up' = FALSE
    /\ pc' = "stopped"
    /\ calls' = {}
    /\ UNCHANGED <<running, signal_at, client, market_data, hist_failed,
                   exch_failed, last_update, positions, emergency, idx, steps,
                   due_refresh, trade, pass>>
    /\ UNCHANGED <<emergency_seen, outside_engine>>

\* the steps of run(); HandleShutdown is the signal handler
EngineStep ==
    \/ Start
    \/ InitializeExchange
    \/ LoadHistoricalData
    \/ AnalyzeMarketsInit
    \/ LoopHead
    \/ RefreshMarketData
    \/ RetrainModels
    \/ UpdateRisk
    \/ GetPortfolio
    \/ TradeBreak
    \/ TradeWeakSignal
    \/ TradeNoSize
    \/ TradeBuyRaises
    \/ TradeBuyFilled
    \/ MonitorStart
    \/ MonitorCheck
    \/ MonitorRaises
    \/ UpdatePerformanceMetrics
    \/ Sleep
    \/ ErrorSleep
    \/ ShutdownClosePositions
    \/ ShutdownCloseExchange
    \/ ShutdownExecutor

Next == HandleShutdown \/ EngineStep

Spec == Init /\ [][Next]_vars

\* every await of run() returns or raises: a step of run() that can be taken
\* is taken
FairSpec == Spec /\ WF_vars(EngineStep)

----------------------------------------------------------------------------
\* Properties

\* C1: in every reachable state the position map has at most
\* max_open_positions entries, whatever the signals, fills and failures
C1_OpenPositionsBounded == Len(positions) <= max_open_positions

\* an entry was filled and the map is at the limit
C1_Witness == trade.buy = "filled" /\ Len(positions) = max_open_positions

\* C2: a termination signal received in the loop leads to Stopped, with the
\* exchange client and the worker pool released
C2_ShutdownReachesStopped ==
    (signal_at = "loop")
        ~> (pc = "stopped" /\ client = "closed" /\ ~executor_up)

\* C3: when the engine is Stopped the position map is empty
C3_StoppedHasNoPositions == pc = "stopped" => positions = <<>>

\* C4: when ExchangeIntegration.initialize raised, run() has returned: no
\* iteration, no fetch, no order, no second initialization
C4_ExchangeFailureIsFatal ==
    exch_failed =>
        /\ pc = "init_failed"
        /\ calls = {"AsyncClient.create"}
        /\ steps = <<>>
        /\ market_data = {}
        /\ positions = <<>>
        /\ client = "none"

C4_Witness == exch_failed /\ pc = "init_failed"

\* C5: when a fetch of the historical bootstrap failed, no loop iteration is
\* executed
C5_BootstrapFailureIsFatal == hist_failed => pc \notin IterationPcs

Rank(step) ==
    CASE step = "refresh" -> 1
      [] step = "retrain" -> 2
      [] step = "risk" -> 3
      [] step = "trade" -> 4
      [] step = "monitor" -> 5
      [] step = "metrics" -> 6

StepsStarted == {steps[i] : i \in 1..Len(steps)}

\* C6: the steps of an iteration start in the order refresh, (retrain, risk,)
\* execution, monitoring; monitoring never starts in an iteration whose
\* execution step did not, and execution never before a refresh that was due
C6_StepOrder ==
    /\ \A i, j \in 1..Len(steps) : i < j => Rank(steps[i]) < Rank(steps[j])
    /\ "monitor" \in StepsStarted => "trade" \in StepsStarted
    /\ ("trade" \in StepsStarted /\ due_refresh) => "refresh" \in StepsStarted

\* an iteration with a due refresh has reached the monitoring of a position
C6_Witness ==
    /\ pc = "monitor_position"
    /\ due_refresh
    /\ {"refresh", "trade", "monitor"} \subseteq StepsStarted

\* C7 as stated: after a shutdown request, at any point, no step issues an
\* exchange call other than those of the cleanup
C7_NoNewCallsAfterSignal == [][signal_at # "none" => calls' \subseteq CleanupCalls]_vars

\* C7 amended: with the request recorded (self.running false) the loop test
\* starts no further iteration, and the steps after the loop issue only the
\* calls of the cleanup
C7_NoNewIterationAfterSignal ==
    [][ /\ (pc = "loop_head" /\ ~running) => pc' \notin IterationPcs
        /\ (pc \in ShutdownPcs \/ (pc = "loop_head" /\ ~running))
               => calls' \subseteq CleanupCalls ]_vars

\* the cleanup is selling a position after a request
C7_Witness ==
    /\ signal_at = "loop"
    /\ pc = "shutdown_exchange"
    /\ calls = {"execute_order:SELL:MARKET"}

\* C8: the loop is left only by the loop test finding self.running false
\* after a signal; an exception in a step leads back to the loop test, and
\* the loop test of a running engine starts a further iteration
C8_LoopSurvivesExceptions ==
    [][ /\ (pc \in LoopPcs /\ pc' \notin LoopPcs)
            => (pc = "loop_head" /\ ~running /\ signal_at # "none" /\ pc' = "shutdown_close")
        /\ (pc = "error_sleep" /\ pc' # pc) => pc' = "loop_head"
        /\ (pc = "loop_head" /\ running /\ pc' # pc) => pc' = "refresh" ]_vars

\* an exception has reached the handler of the loop body
C8_Witness == pc = "error_sleep" /\ running

\* C9: a BUY is submitted for a symbol only with a signal above the
\* threshold, fewer positions than the limit and a positive size; otherwise
\* no BUY is submitted and the position map stays as it was
C9_EntryGate ==
    [][ trade'.symbol # "" =>
          LET gate == /\ trade'.signal > confidence_threshold
                      /\ trade'.count < max_open_positions
                      /\ trade'.size > 0
          IN /\ (trade'.buy # "none" \/ "execute_order:BUY" \in calls') => gate
             /\ ~gate => positions' = positions ]_vars

\* an entry was filled
C9_Witness == trade.buy = "filled" /\ trade.symbol \in PosSymbols(positions)

\* C10: a monitoring pass whose emergency check triggered leaves the position
\* map empty and has updated no trailing stop
C10_EmergencyClosesAll ==
    pass.emergency => (positions = <<>> /\ ~pass.trailed)

\* C11: once an emergency check has triggered, no step submits a BUY entry
C11_NoEntryAfterEmergency ==
    emergency_seen => "execute_order:BUY" \notin calls

\* the symbols that have a stored MarketCondition
ConditionSymbols == {market_conditions[i].symbol : i \in 1..Len(market_conditions)}

\* C17: once the risk update of an iteration has run, every symbol with
\* market data has a MarketCondition in the risk manager
C17_ConditionsAfterRiskUpdate ==
    "risk" \in StepsStarted => market_data \subseteq ConditionSymbols
----------------------------------------------------------------------------
\* The risk manager, the signal combiner and the order executor as functions
\* of their inputs.  A float is an integer in a fixed unit: money in whole
\* units, a drawdown or loss threshold in percent, a volatility in 1e-4, a
\* liquidity score in percent, a stop percentage in 1e-6.

\* emergency_triggers
max_drawdown == 15
max_daily_loss == 5
max_volatility == 500
\* the literal 0.5 of the liquidity test
min_liquidity_score == 50

\* longest portfolio snapshot of the inputs
MaxPortfolio == 2

\* a position record of a snapshot; has_value is FALSE for a record without
\* the 'value' key (peak_value and daily_pl default to 0 when absent)
PositionRecords ==
    [has_value : {TRUE}, value : {42, 43, 85}, peak_value : {0, 100}, daily_pl : {-5, 0}]
    \cup [has_value : {FALSE}, value : {0}, peak_value : {100}, daily_pl : {0}]

RECURSIVE SeqsUpTo(_, _)
SeqsUpTo(S, n) ==
    IF n = 0 THEN {<<>>}
    ELSE LET shorter == SeqsUpTo(S, n - 1)
         IN  shorter \cup {Append(q, x) : q \in {r \in shorter : Len(r) = n - 1}, x \in S}

Portfolios == SeqsUpTo(PositionRecords, MaxPortfolio)

\* a stored MarketCondition with the symbol it is stored under
ConditionRecords ==
    [symbol : {"BTC/USDT", "ETH/USDT"}, volatility : {500, 501},
     liquidity : {49, 50}, trend_strength : {0}]

RECURSIVE SumOf(_, _)
SumOf(q, field) ==
    IF q = <<>> THEN 0 ELSE q[1][field] + SumOf(Tail(q), field)

RECURSIVE MaxOf(_, _)
MaxOf(q, field) ==
    IF Len(q) = 1 THEN q[1][field]
    ELSE LET m == MaxOf(Tail(q), field)
         IN  IF q[1][field] > m THEN q[1][field] ELSE m

NoEmergency == [raised |-> FALSE, trigger |-> FALSE, reason |-> ""]

Trigger(reason) == [raised |-> FALSE, trigger |-> TRUE, reason |-> reason]

Raised(error) == [raised |-> TRUE, trigger |-> FALSE, reason |-> error]

DrawdownExceeded_OfCurrent(peak_value, total_value) ==
    peak_value > 0 /\ (peak_value - total_value) * 100 > max_drawdown * total_value

\* drawdown = (peak - total) / peak if peak > 0 else 0;  drawdown > max_drawdown
DrawdownExceeded(peak_value, total_value) ==
    peak_value > 0 /\ (peak_value - total_value) * 100 > max_drawdown * peak_value

\* daily_pl_pct = daily_pl / total if total > 0 else 0;  pct < -max_daily_loss
DailyLossExceeded(daily_pl, total_value) ==
    total_value > 0 /\ daily_pl * 100 < (0 - max_daily_loss) * total_value

\* the loop over market_conditions.items(): the first breached test returns
RECURSIVE CheckConditions(_)
CheckConditions(conds) ==
    IF conds = <<>> THEN NoEmergency
    ELSE IF conds[1].volatility > max_volatility THEN Trigger("Excessive volatility")
    ELSE IF conds[1].liquidity < min_liquidity_score THEN Trigger("Insufficient liquidity")
    ELSE CheckConditions(Tail(conds))

\* the try block of check_emergency_shutdown: pos['value'] raises KeyError
\* for a record without the key, max() raises ValueError for no record
EmergencyEvaluation(portfolio, conds) ==
    IF \E i \in 1..Len(portfolio) : ~portfolio[i].has_value THEN Raised("KeyError")
    ELSE IF portfolio = <<>> THEN Raised("ValueError")
    ELSE LET total_value == SumOf(portfolio, "value")
             peak_value == MaxOf(portfolio, "peak_value")
             daily_pl == SumOf(portfolio, "daily_pl")
         IN  IF DrawdownExceeded(peak_value, total_value)
                 THEN Trigger("Maximum drawdown exceeded")
             ELSE IF DailyLossExceeded(daily_pl, total_value)
                 THEN Trigger("Maximum daily loss exceeded")
             ELSE CheckConditions(conds)

EmergencyEvaluationError_Propagates(outcome) == outcome

\* except Exception: return True, "Error in risk assessment: ..."
EmergencyEvaluationError(outcome) == Trigger("Error in risk assessment")

CheckEmergencyShutdown(portfolio, conds) ==
    LET outcome == EmergencyEvaluation(portfolio, conds)
    IN  IF outcome.raised THEN EmergencyEvaluationError(outcome) ELSE outcome

\* the symbol's stored condition (market_conditions.get(symbol))
StoredCondition(conds, symbol) ==
    LET hits == {i \in 1..Len(conds) : conds[i].symbol = symbol}
    IN  IF hits = {} THEN <<>> ELSE <<conds[CHOOSE i \in hits : TRUE]>>

\* the cap of final_stop_pct, 1% and 5% in 1e-6
min_stop_pct == 10000
max_stop_pct == 50000
\* the fallback pair 0.98 and 1.04 as factors in 1e-6
fallback_stop == 980000
fallback_target == 1040000

\* entry prices, and the conditions a caller passes explicitly
EntryPrices == {1, 100, 500}
Volatilities == {0, 50, 200, 300, 1000}
TrendStrengths == {-200, 0, 50, 900}

StopLossInputs ==
    [symbol : Symbols, entry_price : EntryPrices, given : {TRUE},
     volatility : Volatilities, trend_strength : TrendStrengths]
    \cup [symbol : Symbols, entry_price : EntryPrices, given : {FALSE},
          volatility : {0}, trend_strength : {0}]

FinalStopPct_NoCap(trend_adjusted_stop) ==
    IF trend_adjusted_stop > min_stop_pct THEN trend_adjusted_stop ELSE min_stop_pct

\* min(max(trend_adjusted_stop, 0.01), 0.05)
FinalStopPct(trend_adjusted_stop) ==
    LET floored == IF trend_adjusted_stop > min_stop_pct
                       THEN trend_adjusted_stop ELSE min_stop_pct
    IN  IF floored < max_stop_pct THEN floored ELSE max_stop_pct

\* base_stop * (volatility / 0.02) * (1 + trend_strength / 100), in 1e-6:
\* the volatility in 1e-4 times (100 + trend_strength)
TrendAdjustedStop(cond) == cond.volatility * (100 + cond.trend_strength)

PricePair(stop_loss, take_profit) ==
    [raised |-> FALSE, stop_loss |-> stop_loss, take_profit |-> take_profit]

NoPricePair == [raised |-> TRUE, stop_loss |-> 0, take_profit |-> 0]

\* the try block of calculate_dynamic_stop_loss; prices are in 1e-6
StopLossEvaluation(in, conds) ==
    LET found == IF in.given THEN <<in>> ELSE StoredCondition(conds, in.symbol)
    IN  IF found = <<>> THEN NoPricePair
        ELSE LET final_stop_pct == FinalStopPct(TrendAdjustedStop(found[1]))
             IN  PricePair(in.entry_price * (1000000 - final_stop_pct),
                           in.entry_price * (1000000 + final_stop_pct * 2))

StopLossError_Propagates(entry_price) == NoPricePair

\* except Exception: return entry_price * 0.98, entry_price * 1.04
StopLossError(entry_price) ==
    PricePair(entry_price * fallback_stop, entry_price * fallback_target)

CalculateDynamicStopLoss(in, conds) ==
    LET outcome == StopLossEvaluation(in, conds)
    IN  IF outcome.raised THEN StopLossError(in.entry_price) ELSE outcome

\* DEEP_LEARNING_CONFIG['prediction_threshold'], in 1e-3
prediction_threshold == 20
\* the cap 0.1 of the amplification, in 1e-3
max_amplification == 100

\* traditional signal and confidence in tenths, predicted return in 1e-3
CombineInputs ==
    [traditional_signal : {-10, 0, 5, 10}, dl_action : {0, 1, 2, 3},
     dl_confidence : {0, 5, 10}, dl_return : {-50, -20, 0, 20, 21, 50, 150}]

Abs(x) == IF x < 0 THEN 0 - x ELSE x

Sign(x) == IF x > 0 THEN 1 ELSE IF x < 0 THEN 0 - 1 ELSE 0

\* {0: 0.0, 1: 1.0, 2: -1.0}.get(dl_action, 0.0)
DlSignal(dl_action) == IF dl_action = 1 THEN 1 ELSE IF dl_action = 2 THEN 0 - 1 ELSE 0

\* a float result as the fraction num / den (den > 0)
Fraction(num, den) == [raised |-> FALSE, num |-> num, den |-> den]

\* (t * 0.4 + d * 0.6 c) / (0.4 + 0.6 c), numerator and denominator in 1e-2
WeightedAverage(in) ==
    Fraction(4 * in.traditional_signal + 6 * in.dl_confidence * DlSignal(in.dl_action),
             40 + 6 * in.dl_confidence)

\* combined *= (1 + np.sign(dl_return) * min(abs(dl_return), 0.1)): the module
\* imports no numpy, the name np is undefined and the statement raises NameError
Amplify(combined, dl_return) == [raised |-> TRUE, num |-> 0, den |-> 1]

\* the try block of _combine_signals
CombineEvaluation(in) ==
    IF Abs(in.dl_return) > prediction_threshold
        THEN Amplify(WeightedAverage(in), in.dl_return)
        ELSE WeightedAverage(in)

\* except Exception: return 0.0
CombineError == Fraction(0, 1)

CombineSignals(in) ==
    LET outcome == CombineEvaluation(in)
    IN  IF outcome.raised THEN CombineError ELSE outcome

\* exchange config, slippage in 1e-3
slippage_tolerance == 1
max_retries == 3

\* what one attempt of execute_order meets: the order book (read, too thin
\* for the amount, or unreadable), the slippage a readable book gives, and
\* what create_order does (returns a fill, a fill at a price outside the
\* limit band, raises BinanceAPIException, raises something else)
AttemptOutcomes ==
    [book : {"ok"}, slippage : {1},
     create : {"filled", "bad_fill", "api_error", "error"}]
    \cup [book : {"ok"}, slippage : {2}, create : {"filled"}]
    \cup [book : {"thin", "unreadable"}, slippage : {0}, create : {"filled"}]

OrderTypes == {"MARKET", "LIMIT", "STOP_LOSS"}

\* estimate_slippage: float('inf') for a thin book and for any exception
EstimateSlippage(attempt) ==
    IF attempt.book = "ok" THEN [inf |-> FALSE, value |-> attempt.slippage]
    ELSE [inf |-> TRUE, value |-> 0]

SlippageExceeds_FiniteOnly(estimate) ==
    ~estimate.inf /\ estimate.value > slippage_tolerance

\* estimated_slippage > self.slippage_tolerance
SlippageExceeds(estimate) ==
    estimate.inf \/ estimate.value > slippage_tolerance

\* the order type sent to the client: LIMIT stays LIMIT, all else is MARKET
SentType(order_type) == IF order_type = "LIMIT" THEN "LIMIT" ELSE "MARKET"

\* one pass of the try block: what was sent, and how the pass ended
\* ("returned", "api_error" for BinanceAPIException, "error" for the rest)
Attempt(in, attempt) ==
    IF SlippageExceeds(EstimateSlippage(attempt))
        THEN [sent |-> "", ended |-> "error"]
    ELSE IF in.order_type = "LIMIT" /\ in.price = 0
        THEN [sent |-> "", ended |-> "error"]
    ELSE IF attempt.create \in {"api_error", "error"}
        THEN [sent |-> SentType(in.order_type), ended |-> attempt.create]
    ELSE IF attempt.create = "bad_fill" /\ in.order_type = "LIMIT"
        THEN [sent |-> "LIMIT", ended |-> "error"]
    ELSE [sent |-> SentType(in.order_type), ended |-> "returned"]

RetryAfter_AnyFailure(pass_, n) == n < max_retries /\ pass_.ended # "returned"

\* except BinanceAPIException: retry unless attempt == max_retries - 1;
\* except Exception: raise
RetryAfter(pass_, n) == n < max_retries /\ pass_.ended = "api_error"

\* for attempt in range(max_retries): the passes made, in order
RECURSIVE ExecuteOrderFrom(_, _)
ExecuteOrderFrom(in, n) ==
    LET pass_ == Attempt(in, in.script[n])
    IN  IF RetryAfter(pass_, n) THEN <<pass_>> \o ExecuteOrderFrom(in, n + 1)
        ELSE <<pass_>>

ExecuteOrder(in) ==
    LET passes == ExecuteOrderFrom(in, 1)
    IN  [raised |-> passes[Len(passes)].ended # "returned", passes |-> passes]

\* the inputs of optimize_portfolio_weights: whether correlation_matrix is
\* set, the keys of current_portfolio in order, the correlation of the two
\* symbols in percent and their expected returns in percent
WeightInputs ==
    [matrix : BOOLEAN,
     holdings : {<<>>, <<"BTC/USDT">>, <<"ETH/USDT">>, <<"BTC/USDT", "ETH/USDT">>,
                 <<"ETH/USDT", "BTC/USDT">>},
     correlation : {-100, 0, 50, 100},
     expected_returns : [{"BTC/USDT", "ETH/USDT"} -> {-10, 0, 10}]]

\* n_assets times 1000 times the score 0.7 * div_score + 0.3 * ret_score, where
\* div_score is the mean over the holdings of 1 - |correlation|
Score(in, s) ==
    LET n_assets == Len(in.holdings)
        distance == IF n_assets = 1 THEN 0 ELSE 100 - Abs(in.correlation)
    IN  7 * distance + 3 * n_assets * in.expected_returns[s]

RECURSIVE TotalScore(_, _)
TotalScore(in, k) ==
    IF k = 0 THEN 0 ELSE Score(in, in.holdings[k]) + TotalScore(in, k - 1)

\* a weight: the fraction num / den, or the float nan, inf or -inf
Weight(num, den) == [kind |-> "number", num |-> num, den |-> den]

NotANumber(kind) == [kind |-> kind, num |-> 0, den |-> 1]

\* score / total_score on numpy floats: a zero divisor raises nothing, the
\* quotient is nan, inf or -inf
FloatDivide(num, den) ==
    IF den # 0 THEN Weight(num, den)
    ELSE IF num = 0 THEN NotANumber("nan")
    ELSE IF num > 0 THEN NotANumber("inf")
    ELSE NotANumber("-inf")

Weights(w) == [raised |-> FALSE, weights |-> w]

\* the try block of optimize_portfolio_weights
WeightEvaluation(in) ==
    IF ~in.matrix THEN [raised |-> TRUE, weights |-> <<>>]
    ELSE IF Len(in.holdings) = 0 THEN Weights(<<>>)
    ELSE LET total_score == TotalScore(in, Len(in.holdings))
         IN  Weights([i \in 1..Len(in.holdings) |->
                        FloatDivide(Score(in, in.holdings[i]), total_score)])

\* except Exception: equal weights, or {} for no holdings
EqualWeights(holdings) ==
    Weights([i \in 1..Len(holdings) |-> Weight(1, Len(holdings))])

OptimizePortfolioWeights(in) ==
    LET outcome == WeightEvaluation(in)
    IN  IF outcome.raised THEN EqualWeights(in.holdings) ELSE outcome

----------------------------------------------------------------------------
\* The risk manager on its own: conditions are stored by
\* update_market_condition, and its three queries are called with any input.

\* self.market_conditions[symbol] = condition
StoreCondition(conds, rec) ==
    IF \E i \in 1..Len(conds) : conds[i].symbol = rec.symbol
        THEN [i \in 1..Len(conds) |->
                IF conds[i].symbol = rec.symbol THEN rec ELSE conds[i]]
        ELSE Append(conds, rec)

\* a call is made when no call is in progress, and records its input and result
Called(name, input, output) ==
    /\ fn = "none"
    /\ fn' = name
    /\ arg' = input
    /\ ret' = output
    /\ UNCHANGED <<engine_vars, paper, optimizer>>

\* the caller takes the result
Return ==
    /\ fn # "none"
    /\ fn' = "none"
    /\ arg' = <<>>
    /\ ret' = <<>>
    /\ UNCHANGED <<engine_vars, market_conditions, paper, optimizer>>

\* update_market_condition; when the computation raises nothing is stored
UpdateMarketCondition ==
    /\ fn = "none"
    /\ \E rec \in ConditionRecords, raised \in BOOLEAN :
        market_conditions' =
            IF raised THEN market_conditions ELSE StoreCondition(market_conditions, rec)
    /\ UNCHANGED <<engine_vars, fn, arg, ret, paper, optimizer>>

CallCheckEmergencyShutdown ==
    \E portfolio \in Portfolios :
        /\ Called("check_emergency_shutdown", portfolio,
                  CheckEmergencyShutdown(portfolio, market_conditions))
        /\ UNCHANGED market_conditions

CallCalculateDynamicStopLoss ==
    \E in \in StopLossInputs :
        /\ Called("calculate_dynamic_stop_loss", in,
                  CalculateDynamicStopLoss(in, market_conditions))
        /\ UNCHANGED market_conditions

CallOptimizePortfolioWeights ==
    \E in \in WeightInputs :
        /\ Called("optimize_portfolio_weights", in, OptimizePortfolioWeights(in))
        /\ UNCHANGED market_conditions

RiskNext ==
    \/ UpdateMarketCondition
    \/ CallCheckEmergencyShutdown
    \/ CallCalculateDynamicStopLoss
    \/ CallOptimizePortfolioWeights
    \/ Return

RiskSpec == Init /\ [][RiskNext]_vars

\* The signal combiner and the order executor called with any input.
CallCombineSignals ==
    \E in \in CombineInputs :
        /\ Called("_combine_signals", in, CombineSignals(in))
        /\ UNCHANGED market_conditions

CallExecuteOrder ==
    \E order_type \in OrderTypes, side \in {"BUY", "SELL"}, price \in {0, 100},
       script \in [1..max_retries -> AttemptOutcomes] :
        LET in == [order_type |-> order_type, side |-> side, price |-> price,
                   script |-> script]
        IN  /\ Called("execute_order", in, ExecuteOrder(in))
            /\ UNCHANGED market_conditions

SignalNext == CallCombineSignals \/ Return

SignalSpec == Init /\ [][SignalNext]_vars

ExchangeNext == CallExecuteOrder \/ Return

ExchangeSpec == Init /\ [][ExchangeNext]_vars
----------------------------------------------------------------------------
\* Properties of the risk manager, the combiner and the order executor

\* the snapshot cannot be evaluated: it is empty or a record has no value
SnapshotUnreadable(portfolio) ==
    portfolio = <<>> \/ \E i \in 1..Len(portfolio) : ~portfolio[i].has_value

\* C12: check_emergency_shutdown raises nothing to its caller, and a snapshot
\* that cannot be evaluated is reported as an emergency with a reason
C12_EvaluationFailureIsEmergency ==
    fn = "check_emergency_shutdown" =>
        /\ ~ret.raised
        /\ SnapshotUnreadable(arg) => (ret.trigger /\ ret.reason # "")

C12_Witness ==
    /\ fn = "check_emergency_shutdown"
    /\ Len(arg) = 2 /\ arg[1].has_value /\ ~arg[2].has_value
    /\ ret.trigger /\ ~ret.raised

\* a condition other than the drawdown is breached
OtherBreach(portfolio, conds) ==
    \/ DailyLossExceeded(SumOf(portfolio, "daily_pl"), SumOf(portfolio, "value"))
    \/ \E i \in 1..Len(conds) :
          conds[i].volatility > max_volatility \/ conds[i].liquidity < min_liquidity_score

\* C13: with nothing else breached, the check triggers for every drawdown
\* (peak - current) / peak above max_drawdown and does not trigger for any
\* drawdown below it, the drawdown being 0 when the peak is not positive
C13_DrawdownBoundary ==
    (fn = "check_emergency_shutdown" /\ ~SnapshotUnreadable(arg)
        /\ ~OtherBreach(arg, market_conditions)) =>
        LET peak == MaxOf(arg, "peak_value")
            current == SumOf(arg, "value")
        IN  /\ (peak > 0 /\ (peak - current) * 100 > max_drawdown * peak) => ret.trigger
            /\ (peak <= 0 \/ (peak - current) * 100 < max_drawdown * peak) => ~ret.trigger

C13_Witness ==
    /\ fn = "check_emergency_shutdown"
    /\ Len(arg) = 2 /\ ~SnapshotUnreadable(arg)
    /\ MaxOf(arg, "peak_value") = 100 /\ SumOf(arg, "value") = 84
    /\ ~OtherBreach(arg, market_conditions)
    /\ ret.trigger

\* C14: the pair returned is entry * (1 - p) and entry * (1 + 2p) for a stop
\* percentage p between 1% and 5%, and p is 2% for volatility 0.02 and trend 0
C14_StopWithinBand ==
    fn = "calculate_dynamic_stop_loss" =>
        LET entry == arg.entry_price
            p == (entry * 1000000 - ret.stop_loss) \div entry
        IN  /\ ~ret.raised
            /\ ret.stop_loss = entry * (1000000 - p)
            /\ ret.take_profit = entry * (1000000 + 2 * p)
            /\ 10000 <= p /\ p <= 50000
            /\ (arg.given /\ arg.volatility = 200 /\ arg.trend_strength = 0) => p = 20000

C14_Witness ==
    /\ fn = "calculate_dynamic_stop_loss"
    /\ arg.given /\ arg.volatility = 1000 /\ arg.trend_strength = 900
    /\ arg.entry_price = 100
    /\ ret.stop_loss = 95000000 /\ ret.take_profit = 110000000

\* no condition is passed and none is stored for the symbol
NoConditionFor(in, conds) == ~in.given /\ StoredCondition(conds, in.symbol) = <<>>

\* C15: without any condition for the symbol the call fails to its caller
C15_MissingConditionRaises ==
    (fn = "calculate_dynamic_stop_loss" /\ NoConditionFor(arg, market_conditions)) =>
        ret.raised

\* C15 as amended: without any condition for the symbol the call raises
\* nothing and itself returns the pair 0.98 * entry, 1.04 * entry
C15_MissingConditionFallsBack ==
    (fn = "calculate_dynamic_stop_loss" /\ NoConditionFor(arg, market_conditions)) =>
        /\ ~ret.raised
        /\ ret.stop_loss = arg.entry_price * 980000
        /\ ret.take_profit = arg.entry_price * 1040000

C15_Witness ==
    /\ fn = "calculate_dynamic_stop_loss"
    /\ NoConditionFor(arg, market_conditions)
    /\ market_conditions # <<>>
    /\ arg.entry_price = 100
    /\ ret.stop_loss = 98000000 /\ ret.take_profit = 104000000

\* the value the combination is specified to have: the weighted average,
\* times 1 + sign(r) * min(|r|, 0.1) when |r| is above the threshold
SpecifiedCombination(in) ==
    LET average == WeightedAverage(in)
        capped == IF Abs(in.dl_return) < max_amplification
                      THEN Abs(in.dl_return) ELSE max_amplification
    IN  IF Abs(in.dl_return) > prediction_threshold
            THEN Fraction(average.num * (1000 + Sign(in.dl_return) * capped),
                          average.den * 1000)
            ELSE average

\* C16: _combine_signals returns the specified combination
C16_CombineFormula ==
    fn = "_combine_signals" =>
        ret.num * SpecifiedCombination(arg).den = SpecifiedCombination(arg).num * ret.den

\* the estimate of an attempt is above the tolerance (infinite included)
EstimateExceeds(attempt) ==
    attempt.book # "ok" \/ attempt.slippage > slippage_tolerance

\* C18: an attempt whose slippage estimate exceeds the tolerance sends
\* nothing, is the last attempt of the call, and the call fails
C18_SlippageGate ==
    fn = "execute_order" =>
        \A i \in 1..Len(ret.passes) :
            EstimateExceeds(arg.script[i]) =>
                /\ ret.passes[i].sent = ""
                /\ i = Len(ret.passes)
                /\ ret.raised

C18_Witness ==
    /\ fn = "execute_order"
    /\ Len(ret.passes) = 2
    /\ ret.passes[1].sent = "MARKET"
    /\ arg.script[2].book = "thin"
    /\ ret.passes[2].sent = "" /\ ret.raised

\* C20: no holdings give no weights; holdings without a correlation matrix
\* or with a zero total score get 1/n each; otherwise each weight is its
\* score over the total and the weights sum to 1
C20_WeightFallbacks ==
    fn = "optimize_portfolio_weights" =>
        LET n == Len(arg.holdings)
            total == TotalScore(arg, n)
            w == ret.weights
        IN  /\ ~ret.raised
            /\ Len(w) = n
            /\ \A i \in 1..n : w[i].kind = "number"
            /\ IF ~arg.matrix \/ total = 0
                   THEN \A i \in 1..n : w[i].num * n = w[i].den
                   ELSE \A i \in 1..n :
                            w[i].num * total = Score(arg, arg.holdings[i]) * w[i].den
----------------------------------------------------------------------------
\* The paper-trading strategy: its state, execute_trade and the route that
\* posts last prices.  Money and prices are whole units.

starting_balance == 10000

\* most trades of a run
MaxTrades == 2

PaperSymbols == {"BTC/USDT", "ETH/USDT"}
PaperPrices == {4000, 6000}
PaperAmounts == {1, 2}

TradeInputs ==
    [symbol : PaperSymbols, side : {"buy", "sell"}, amount : PaperAmounts,
     price : PaperPrices]

\* the strategy after __init__ with no state file; a symbol without holding
\* or last price maps to 0, the default of holdings.get and last_prices.get;
\* win_rate is kept as the number of winning trades over the history length
PaperStart ==
    [balance |-> starting_balance,
     holdings |-> [s \in PaperSymbols |-> 0],
     trade_history |-> <<>>,
     performance |-> [total_trades |-> 0, winning_trades |-> 0, profit_loss |-> 0],
     last_prices |-> [s \in PaperSymbols |-> 0]]

PaperInit ==
    /\ EngineInit
    /\ market_conditions = <<>>
    /\ fn = "none"
    /\ arg = <<>>
    /\ ret = <<>>
    /\ paper = PaperStart
    /\ optimizer = <<>>

\* validate_trade: the buy test prices the amount at the last known price
ValidateTrade(p, in) ==
    IF in.side = "buy" THEN ~(in.amount * p.last_prices[in.symbol] > p.balance)
    ELSE IF in.side = "sell" THEN ~(in.amount > p.holdings[in.symbol])
    ELSE TRUE

\* the trades of the history that count as winning against the last prices
RECURSIVE WinningTrades(_, _)
WinningTrades(history, last_prices) ==
    IF history = <<>> THEN 0
    ELSE LET trade_ == history[1]
             won == \/ trade_.side = "buy" /\ trade_.price < last_prices[trade_.symbol]
                    \/ trade_.side = "sell" /\ trade_.price > last_prices[trade_.symbol]
         IN  (IF won THEN 1 ELSE 0) + WinningTrades(Tail(history), last_prices)

\* execute_trade after a passed validation: balance and holdings, the trade
\* record, total_trades, then update_performance_metrics
RecordTrade(p, in) ==
    LET balance == IF in.side = "buy" THEN p.balance - in.amount * in.price
                   ELSE p.balance + in.amount * in.price
        held == IF in.side = "buy" THEN p.holdings[in.symbol] + in.amount
                ELSE p.holdings[in.symbol] - in.amount
        history == Append(p.trade_history,
                          [symbol |-> in.symbol, side |-> in.side, amount |-> in.amount,
                           price |-> in.price, balance |-> balance])
    IN  [p EXCEPT !.balance = balance,
                  !.holdings[in.symbol] = held,
                  !.trade_history = history,
                  !.performance = [total_trades |-> p.performance.total_trades + 1,
                                   winning_trades |-> WinningTrades(history, p.last_prices),
                                   profit_loss |-> balance - starting_balance]]

TradeResult(success, message) == [success |-> success, message |-> message]

\* execute_trade; save_state may raise after the state has been changed
ExecuteTrade ==
    /\ fn = "none"
    /\ Len(paper.trade_history) < MaxTrades
    /\ \E in \in TradeInputs, save_raises \in BOOLEAN :
        /\ fn' = "execute_trade"
        /\ arg' = in
        /\ IF ~ValidateTrade(paper, in)
               THEN /\ paper' = paper
                    /\ ret' = TradeResult(FALSE, "Trade validation failed")
               ELSE /\ paper' = RecordTrade(paper, in)
                    /\ ret' = IF save_raises THEN TradeResult(FALSE, "save_state error")
                              ELSE TradeResult(TRUE, "")
    /\ UNCHANGED <<engine_vars, market_conditions, optimizer>>

\* POST /trading/paper/last_prices
UpdateLastPrices ==
    /\ fn = "none"
    /\ \E s \in PaperSymbols, price \in PaperPrices :
        paper' = [paper EXCEPT !.last_prices[s] = price]
    /\ UNCHANGED <<engine_vars, market_conditions, optimizer, fn, arg, ret>>

PaperNext == ExecuteTrade \/ UpdateLastPrices \/ Return

PaperSpec == PaperInit /\ [][PaperNext]_vars

\* the trade asks for more than the account has: a buy that costs more than
\* the balance, a sell of more than is held
Oversized(p, in) ==
    \/ in.side = "buy" /\ in.amount * in.price > p.balance
    \/ in.side = "sell" /\ in.amount > p.holdings[in.symbol]

\* C19: execute_trade of an oversized trade returns a failure with a message
\* and leaves balance, holdings, trade_history and performance as they were
C19_RejectedTradeChangesNothing ==
    [][(fn = "none" /\ fn' = "execute_trade" /\ Oversized(paper, arg')) =>
          /\ ~ret'.success
          /\ ret'.message # ""
          /\ paper'.balance = paper.balance
          /\ paper'.holdings = paper.holdings
          /\ paper'.trade_history = paper.trade_history
          /\ paper'.performance = paper.performance]_vars

\* the reason the check is specified to give: the first breached test in the
\* order drawdown, daily loss, volatility of any symbol, liquidity of any symbol
SpecifiedReason(portfolio, conds) ==
    IF DrawdownExceeded(MaxOf(portfolio, "peak_value"), SumOf(portfolio, "value"))
        THEN "Maximum drawdown exceeded"
    ELSE IF DailyLossExceeded(SumOf(portfolio, "daily_pl"), SumOf(portfolio, "value"))
        THEN "Maximum daily loss exceeded"
    ELSE IF \E i \in 1..Len(conds) : conds[i].volatility > max_volatility
        THEN "Excessive volatility"
    ELSE IF \E i \in 1..Len(conds) : conds[i].liquidity < min_liquidity_score
        THEN "Insufficient liquidity"
    ELSE ""

\* C22: for a snapshot that can be evaluated the reason returned is that of
\* the first breached test in the specified order, and nothing breached
\* returns false
C22_FirstBreachInOrder ==
    (fn = "check_emergency_shutdown" /\ ~SnapshotUnreadable(arg)) =>
        /\ ret.reason = SpecifiedReason(arg, market_conditions)
        /\ ret.trigger = (ret.reason # "")

\* C24: a call makes at most max_retries attempts, and every attempt but the
\* last ended with an exchange API exception
C24_RetryOnlyAfterApiError ==
    fn = "execute_order" =>
        /\ Len(ret.passes) <= max_retries
        /\ \A i \in 1..(Len(ret.passes) - 1) : ret.passes[i].ended = "api_error"

C24_Witness ==
    /\ fn = "execute_order"
    /\ Len(ret.passes) = max_retries
    /\ \A i \in 1..max_retries : ret.passes[i].sent = "MARKET"
    /\ ret.raised

\* C24, the control loop: a BUY that raised ends the execution step, no
\* further order is submitted by that step
C24_LoopDoesNotResubmit ==
    [][(pc = "trade_symbol" /\ trade'.buy = "raised") => pc' # "trade_symbol"]_vars

\* C29: a STOP_LOSS order is never sent to the client as a MARKET order
C29_StopLossNotSentAsMarket ==
    (fn = "execute_order" /\ arg.order_type = "STOP_LOSS") =>
        \A i \in 1..Len(ret.passes) : ret.passes[i].sent # "MARKET"

\* C30: the paper balance and every paper holding stay non-negative
C30_PaperAccountNonNegative ==
    paper # <<>> =>
        /\ paper.balance >= 0
        /\ \A s \in PaperSymbols : paper.holdings[s] >= 0

\* C21: the stop recorded for a position that stays open never decreases
C21_StopNeverDecreases ==
    [][\A i \in 1..Len(positions), j \in 1..Len(positions') :
          positions'[j].symbol = positions[i].symbol =>
              positions'[j].stop_loss >= positions[i].stop_loss]_vars

\* a pass of the monitoring loop was made over an open position
C21_Witness == pass.checked /\ positions # <<>> /\ pc = "metrics"

\* C23: after the execution step every recorded position has a submitted
\* stop-loss order and carries its reference
C23_PositionsAreProtected ==
    pc = "monitor" =>
        \A i \in 1..Len(positions) :
            /\ positions[i].stop_order = "submitted"
            /\ positions[i].stop_loss_order_id # "none"

\* C28: a BUY is submitted only for a symbol that has no recorded position
C28_NoEntryOnOpenPosition ==
    [][(TradeBuyRaises \/ TradeBuyFilled) =>
          SymbolList[idx] \notin PosSymbols(positions)]_vars
----------------------------------------------------------------------------
\* The strategy optimizer: train_model, detect_market_regime and predict on
\* its registries.  The clock is in hours, ADX in points, the band value and
\* a regime's strength and confidence in 1e-2, a raw probability in 1e-1 and
\* a returned probability in 1e-5.

\* timedelta(days=1)
retrain_after == 24

\* last hour of the clock
MaxHours == 36

OptimizerKeys == {"BTC/USDT_1m", "BTC/USDT_1d"}

\* the key is in no registry
NeverTrained == 0 - 1

NoRegime == [type |-> "none", strength |-> 0, confidence |-> 0]

\* the optimizer after __init__: empty registries, no stored regime
OptimizerStart ==
    [models |-> [k \in OptimizerKeys |-> NeverTrained],
     scalers |-> [k \in OptimizerKeys |-> NeverTrained],
     last_training |-> [k \in OptimizerKeys |-> NeverTrained],
     market_regime |-> NoRegime,
     now |-> 0]

OptimizerInit ==
    /\ EngineInit
    /\ market_conditions = <<>>
    /\ fn = "none"
    /\ arg = <<>>
    /\ ret = <<>>
    /\ paper = <<>>
    /\ optimizer = OptimizerStart

\* datetime.now() moves on between calls
AdvanceClock ==
    /\ fn = "none"
    /\ optimizer.now + 12 <= MaxHours
    /\ optimizer' = [optimizer EXCEPT !.now = @ + 12]
    /\ UNCHANGED <<engine_vars, market_conditions, fn, arg, ret, paper>>

NeedsNoTraining_IgnoresForce(o, key, force_retrain) ==
    /\ o.last_training[key] # NeverTrained
    /\ o.now - o.last_training[key] < retrain_after

\* if not force_retrain and model_key in self.last_training:
\*     if (current_time - last_train_time) < timedelta(days=1): return True
NeedsNoTraining(o, key, force_retrain) ==
    /\ ~force_retrain
    /\ o.last_training[key] # NeverTrained
    /\ o.now - o.last_training[key] < retrain_after

\* model, scaler and training time are stored together; a registry entry is
\* identified by the hour of its training
StoreTraining(o, key) ==
    [o EXCEPT !.models[key] = o.now, !.scalers[key] = o.now,
              !.last_training[key] = o.now]

TrainingResult(value, outcome, o) == [value |-> value, outcome |-> outcome, state |-> o]

\* train_model: data is "ok", "short" (fewer rows than min_training_samples)
\* or "bad" (prepare_features or the fit raises); joblib.dump may raise after
\* the registries are written; every exception returns False
TrainModelOn(o, key, force_retrain, data, dump_raises) ==
    IF NeedsNoTraining(o, key, force_retrain) THEN TrainingResult(TRUE, "skipped", o)
    ELSE IF data = "bad" THEN TrainingResult(FALSE, "error", o)
    ELSE IF data = "short" THEN TrainingResult(FALSE, "insufficient", o)
    ELSE TrainingResult(~dump_raises, "trained", StoreTraining(o, key))

TrainModel ==
    /\ fn = "none"
    /\ \E key \in OptimizerKeys, force_retrain \in BOOLEAN,
          data \in {"ok", "short", "bad"}, dump_raises \in BOOLEAN :
        LET result == TrainModelOn(optimizer, key, force_retrain, data, dump_raises)
        IN  /\ fn' = "train_model"
            /\ arg' = [key |-> key, force_retrain |-> force_retrain, data |-> data]
            /\ ret' = [value |-> result.value, outcome |-> result.outcome]
            /\ optimizer' = result.state
    /\ UNCHANGED <<engine_vars, market_conditions, paper>>

\* if current_adx > 25:  # Strong trend
strong_trend == 25

\* elif current_bb_width < 0.1:  # Tight range
tight_range == 10

AdxValues == {20, 25, 26, 60}

BandValues == {5, 10, 50}

Min(a, b) == IF a < b THEN a ELSE b

Regime(type, strength, confidence) ==
    [type |-> type, strength |-> strength, confidence |-> confidence]

\* except Exception: return MarketRegime('unknown', 0.0, 0.0, 0.0)
UnknownRegime == Regime("unknown", 0, 0)

\* confidence = current_atr / current_atr.rolling(100).max(): current_atr is
\* atr.iloc[-1], a scalar, and a scalar has no rolling: AttributeError
VolatileRegime(current_adx) == [raised |-> TRUE, regime |-> UnknownRegime]

\* the try block of detect_market_regime; indicators_raise is an indicator
\* computation that raises (a column missing from the data)
RegimeEvaluation(current_adx, current_bb_width, indicators_raise) ==
    IF indicators_raise THEN [raised |-> TRUE, regime |-> UnknownRegime]
    ELSE IF current_adx > strong_trend
    THEN [raised |-> FALSE,
          regime |-> Regime("trending", current_adx, Min(2 * current_adx, 100))]
    ELSE IF current_bb_width < tight_range
    THEN [raised |-> FALSE,
          regime |-> Regime("ranging", current_adx, 100 - current_bb_width)]
    ELSE VolatileRegime(current_adx)

\* detect_market_regime: the regime is stored only when the try block ends
DetectMarketRegime ==
    /\ fn = "none"
    /\ \E current_adx \in AdxValues, current_bb_width \in BandValues,
          indicators_raise \in BOOLEAN :
        LET result == RegimeEvaluation(current_adx, current_bb_width, indicators_raise)
        IN  /\ fn' = "detect_market_regime"
            /\ arg' = [adx |-> current_adx, bb_width |-> current_bb_width,
                       indicators_raise |-> indicators_raise]
            /\ ret' = result.regime
            /\ optimizer' = IF result.raised THEN optimizer
                            ELSE [optimizer EXCEPT !.market_regime = result.regime]
    /\ UNCHANGED <<engine_vars, market_conditions, paper>>

\* probability.max() of the classifier, in 1e-1
RawProbabilities == {5, 6, 9, 10}

\* the regime adjustment of predict, in 1e-5
AdjustProbability(probability, regime) ==
    IF regime.type = "trending"
    THEN probability * (10000 + regime.strength * regime.confidence)
    ELSE IF regime.type = "ranging"
    THEN probability * (10000 - 50 * regime.confidence)
    ELSE IF regime.type = "volatile"
    THEN probability * (10000 - 70 * regime.confidence)
    ELSE probability * 10000

\* predict: a key missing from a registry raises ValueError, features_raise
\* is prepare_features raising; every exception returns (0, 0.0)
PredictOn(o, key, probability, features_raise) ==
    IF \/ o.models[key] = NeverTrained
       \/ o.scalers[key] = NeverTrained
       \/ features_raise
    THEN [raised |-> TRUE, probability |-> 0]
    ELSE [raised |-> FALSE, probability |-> AdjustProbability(probability, o.market_regime)]

Predict ==
    /\ fn = "none"
    /\ \E key \in OptimizerKeys, probability \in RawProbabilities,
          features_raise \in BOOLEAN :
        /\ fn' = "predict"
        /\ arg' = [key |-> key, probability |-> probability,
                   regime |-> optimizer.market_regime]
        /\ ret' = PredictOn(optimizer, key, probability, features_raise)
    /\ UNCHANGED <<engine_vars, market_conditions, paper, optimizer>>

OptimizerNext ==
    \/ AdvanceClock
    \/ TrainModel
    \/ DetectMarketRegime
    \/ Predict
    \/ Return

OptimizerSpec == OptimizerInit /\ [][OptimizerNext]_vars

\* C25: train_model with force false on a key trained less than 24 hours ago
\* returns true without retraining and leaves the model registry, the scaler
\* registry and the training times of every key unchanged; with force true
\* it goes on to train whatever the age of the model, so that on sufficient
\* data the key's registries hold the model of this call
C25_FreshModelIsKept ==
    [][(fn = "none" /\ fn' = "train_model") =>
        LET key == arg'.key
            fresh == /\ optimizer.last_training[key] >= 0
                     /\ optimizer.now - optimizer.last_training[key] < 24
        IN  /\ (~arg'.force_retrain /\ fresh) =>
                  /\ ret'.value = TRUE
                  /\ ret'.outcome = "skipped"
                  /\ optimizer'.models = optimizer.models
                  /\ optimizer'.scalers = optimizer.scalers
                  /\ optimizer'.last_training = optimizer.last_training
            /\ arg'.force_retrain =>
                  /\ ret'.outcome # "skipped"
                  /\ arg'.data = "ok" =>
                        /\ optimizer'.models[key] = optimizer.now
                        /\ optimizer'.scalers[key] = optimizer.now
                        /\ optimizer'.last_training[key] = optimizer.now]_vars

\* a non-forced call has been skipped on a model trained earlier
C25_Witness ==
    /\ fn = "train_model"
    /\ ~arg.force_retrain
    /\ ret.outcome = "skipped"
    /\ ret.value = TRUE
    /\ optimizer.last_training[arg.key] >= 0
    /\ optimizer.now > optimizer.last_training[arg.key]

\* C26: the probability returned by predict is within [0,1] for every raw
\* classifier probability in [0,1] and every stored regime
C26_ProbabilityInUnitInterval ==
    fn = "predict" => (ret.probability >= 0 /\ ret.probability <= 100000)

\* the rule of the specification on valid indicator values
SpecifiedRegimeType(current_adx, current_bb_width) ==
    IF current_adx > 25 THEN "trending"
    ELSE IF current_bb_width < 10 THEN "ranging"
    ELSE "volatile"

\* C27: detect_market_regime returns the regime of the stated rule on valid
\* indicator values, 'volatile' included, and 'unknown' with zero strength
\* and confidence only when the computation fails
C27_RegimeByRule ==
    fn = "detect_market_regime" =>
        /\ ~arg.indicators_raise => ret.type = SpecifiedRegimeType(arg.adx, arg.bb_width)
        /\ ret.type = "unknown" =>
              (arg.indicators_raise /\ ret.strength = 0 /\ ret.confidence = 0)
====
